---- MODULE Spec2Model ----
(***************************************************************************)
(* Model of rclpy_cascade_lifecycle/cascade_lifecycle_node.py: one         *)
(* CascadeLifecycleNode object (identity node_name) and the handlers the   *)
(* executor runs on it one at a time.  Inbound messages, the discovery     *)
(* result and the operator's transition requests are inputs.               *)
(***************************************************************************)
EXTENDS Integers, Sequences, FiniteSets, TLC

\* ---------------------------------------------------------------- bounds
MaxActivators == 2      \* longest _activators list explored
MaxActivations == 2     \* longest _activations list explored

\* ------------------------------------------------------------- constants
\* lifecycle_msgs.msg.State primary state ids
PRIMARY_STATE_UNKNOWN == 0
PRIMARY_STATE_UNCONFIGURED == 1
PRIMARY_STATE_INACTIVE == 2
PRIMARY_STATE_ACTIVE == 3
PRIMARY_STATE_FINALIZED == 4

\* cascade_lifecycle_msgs.msg.Activation operation types
ADD == "ADD"
REMOVE == "REMOVE"

\* the name given to the constructor, and the names of the other participants
node_name == "A"
Names == {"A", "B", "C"}

\* values of msg.state on the states topic
StateIds == {PRIMARY_STATE_UNKNOWN, PRIMARY_STATE_UNCONFIGURED,
             PRIMARY_STATE_INACTIVE, PRIMARY_STATE_ACTIVE,
             PRIMARY_STATE_FINALIZED}

\* labels of the primary states of the host state machine
Labels == {"unconfigured", "inactive", "active", "finalized"}

\* get_namespace() of a node created without a namespace
get_namespace == "/"

VARIABLES
    activators,          \* self._activators        (list)
    activators_state,    \* self._activators_state  (dict)
    activations,         \* self._activations       (list)
    current_state,       \* self._state_machine.current_state[1]
    requested,           \* transitions the last handler requested, in order
    states_pub,          \* what the last handler published on self._states_pub
    activators_pub,      \* what the last handler published on self._activators_pub
    examined,            \* names the last timer_callback read from its iterator
    update_state_calls,  \* times the last handler called self.update_state()
    raised,              \* exception that left the last handler, or "none"
    last,                \* the last handler run and its input
    pre,                 \* the object's fields when the last handler started
    peer_label,          \* lifecycle state of the process named "B"
    obs                  \* observers of the scenarios (history only)

vars == <<activators, activators_state, activations, current_state, requested,
          states_pub, activators_pub, examined, update_state_calls, raised,
          last, pre, peer_label, obs>>

\* ------------------------------------------------------- python containers
\* a dict is a function whose DOMAIN is its key set
EmptyDict == [k \in {} |-> 0]
DictSet(d, k, v) == [x \in (DOMAIN d) \cup {k} |-> IF x = k THEN v ELSE d[x]]
DictDel(d, k) == [x \in (DOMAIN d) \ {k} |-> d[x]]

ListElems(l) == {l[i] : i \in 1..Len(l)}

\* position of the first occurrence of x in l (x occurs in l)
FirstIndex(l, x) == CHOOSE i \in 1..Len(l) : l[i] = x /\ \A j \in 1..(i-1) : l[j] # x

\* list.remove(x): deletes the first occurrence (x occurs in l)
ListRemove(l, x) ==
    LET i == FirstIndex(l, x)
    IN  SubSeq(l, 1, i-1) \o SubSeq(l, i+1, Len(l))

\* str == int in Python: values of different types never compare equal
StrEqInt(label, id) == FALSE

\* ------------------------------------------------------------ the object
\* fields of the object at the start of a handler, outputs empty
Obj ==
    [activators |-> activators, activators_state |-> activators_state,
     activations |-> activations, current_state |-> current_state,
     requested |-> <<>>, states_pub |-> <<>>, activators_pub |-> <<>>,
     examined |-> <<>>, update_state_calls |-> 0, raised |-> "none"]

Snapshot ==
    [activators |-> activators, activators_state |-> activators_state,
     activations |-> activations, current_state |-> current_state]

StateMsg(n, s) == [node_name |-> n, state |-> s]
ActivationMsg(op, target, activator) ==
    [operation_type |-> op, activation |-> target, activator |-> activator]

Publish(o, msg) == [o EXCEPT !.states_pub = Append(@, msg)]

\* ------------------------------------------------- lifecycle callbacks
on_configure(o) == Publish(o, StateMsg(node_name, PRIMARY_STATE_INACTIVE))
on_cleanup(o) == Publish(o, StateMsg(node_name, PRIMARY_STATE_UNCONFIGURED))
on_shutdown(o) == Publish(o, StateMsg(node_name, PRIMARY_STATE_FINALIZED))
on_activate(o) == Publish(o, StateMsg(node_name, PRIMARY_STATE_ACTIVE))
\* on_deactivate announcing the state it leaves
on_deactivate_AnnouncesActive(o) == Publish(o, StateMsg(node_name, PRIMARY_STATE_ACTIVE))
on_deactivate(o) == Publish(o, StateMsg(node_name, PRIMARY_STATE_INACTIVE))
on_error(o) == Publish(o, StateMsg(node_name, PRIMARY_STATE_FINALIZED))

\* the host state machine: start state and goal state of each transition
TransitionFrom(kind) ==
    CASE kind = "configure" -> {"unconfigured"}
      [] kind = "cleanup" -> {"inactive"}
      [] kind = "activate" -> {"inactive"}
      [] kind = "deactivate" -> {"active"}
      [] kind = "shutdown" -> {"unconfigured", "inactive", "active"}

TransitionTo(kind) ==
    CASE kind = "configure" -> "inactive"
      [] kind = "cleanup" -> "unconfigured"
      [] kind = "activate" -> "active"
      [] kind = "deactivate" -> "inactive"
      [] kind = "shutdown" -> "finalized"

Callback(o, kind) ==
    CASE kind = "configure" -> on_configure(o)
      [] kind = "cleanup" -> on_cleanup(o)
      [] kind = "activate" -> on_activate(o)
      [] kind = "deactivate" -> on_deactivate(o)
      [] kind = "shutdown" -> on_shutdown(o)

\* a transition the host runs to completion: the callback publishes and
\* returns SUCCESS, the state machine moves to the goal state; a transition
\* that does not start in the current state is refused with an exception
ChangeState(o, kind) ==
    IF o.current_state \in TransitionFrom(kind)
    THEN [Callback(o, kind) EXCEPT !.current_state = TransitionTo(kind)]
    ELSE [o EXCEPT !.raised = "RCLError"]

\* self.trigger_<kind>() called by the coordinator
Trigger(o, kind) == ChangeState([o EXCEPT !.requested = Append(@, kind)], kind)

\* ----------------------------------------------------------- update_state
parent_inactive(d) == \E a \in DOMAIN d : d[a] = PRIMARY_STATE_INACTIVE
parent_active(d) == \E a \in DOMAIN d : d[a] = PRIMARY_STATE_ACTIVE

\* update_state without the test of parent_active/parent_inactive in the
\* unconfigured branch
Decision_ConfigureUnconditionally(label, d) ==
    CASE label = "unknown" ->
            IF parent_active(d) \/ parent_inactive(d) THEN "configure" ELSE "none"
      [] label = "unconfigured" -> "configure"
      [] label = "inactive" ->
            IF parent_active(d) THEN "activate" ELSE "none"
      [] label = "active" ->
            IF ~parent_active(d) /\ parent_inactive(d) THEN "deactivate" ELSE "none"
      [] OTHER -> "none"

\* update_state with the inactive branch taking any reported parent
Decision_ActivateOnAnyParent(label, d) ==
    CASE label = "unknown" ->
            IF parent_active(d) \/ parent_inactive(d) THEN "configure" ELSE "none"
      [] label = "unconfigured" ->
            IF parent_active(d) \/ parent_inactive(d) THEN "configure" ELSE "none"
      [] label = "inactive" ->
            IF parent_active(d) \/ parent_inactive(d) THEN "activate" ELSE "none"
      [] label = "active" ->
            IF ~parent_active(d) /\ parent_inactive(d) THEN "deactivate" ELSE "none"
      [] OTHER -> "none"

\* update_state with "not parent_active" missing from the active branch
Decision_DeactivateOnInactiveParent(label, d) ==
    CASE label = "unknown" ->
            IF parent_active(d) \/ parent_inactive(d) THEN "configure" ELSE "none"
      [] label = "unconfigured" ->
            IF parent_active(d) \/ parent_inactive(d) THEN "configure" ELSE "none"
      [] label = "inactive" ->
            IF parent_active(d) THEN "activate" ELSE "none"
      [] label = "active" ->
            IF parent_inactive(d) THEN "deactivate" ELSE "none"
      [] OTHER -> "none"

\* the transition update_state requests for a state label and a dict
Decision(label, d) ==
    CASE label = "unknown" ->
            IF parent_active(d) \/ parent_inactive(d) THEN "configure" ELSE "none"
      [] label = "unconfigured" ->
            IF parent_active(d) \/ parent_inactive(d) THEN "configure" ELSE "none"
      [] label = "inactive" ->
            IF parent_active(d) THEN "activate" ELSE "none"
      [] label = "active" ->
            IF ~parent_active(d) /\ parent_inactive(d) THEN "deactivate" ELSE "none"
      [] OTHER -> "none"

update_state(o) ==
    LET kind == Decision(o.current_state, o.activators_state)
        o1 == [o EXCEPT !.update_state_calls = @ + 1]
    IN  IF kind = "none" THEN o1 ELSE Trigger(o1, kind)

\* ---------------------------------------------------- activations_callback
any_other_active(d) == \E a \in DOMAIN d : d[a] = PRIMARY_STATE_ACTIVE

\* the guard of the REMOVE branch
RemoveGuard(o, msg) ==
    msg.activation = node_name /\ msg.activator \notin ListElems(o.activators)

\* the body of the REMOVE branch
RemoveBody(o, msg) ==
    IF msg.activator \notin DOMAIN o.activators_state
    THEN [o EXCEPT !.raised = "KeyError"]
    ELSE IF msg.activator \notin ListElems(o.activators)
    THEN [o EXCEPT !.raised = "ValueError"]
    ELSE LET remover_state == o.activators_state[msg.activator]
             o1 == [o EXCEPT !.activators = ListRemove(@, msg.activator),
                             !.activators_state = DictDel(@, msg.activator)]
         IN  IF remover_state = PRIMARY_STATE_ACTIVE
                /\ ~any_other_active(o1.activators_state)
             THEN Trigger(o1, "deactivate")
             ELSE o1

\* the ADD branch
AddBody(o, msg) ==
    IF msg.activation = node_name
    THEN [o EXCEPT !.activators = Append(@, msg.activator),
                   !.activators_state =
                       IF msg.activator \notin DOMAIN @
                       THEN DictSet(@, msg.activator, PRIMARY_STATE_UNKNOWN)
                       ELSE @]
    ELSE o

activations_callback(o, msg) ==
    IF msg.operation_type = ADD THEN AddBody(o, msg)
    ELSE IF msg.operation_type = REMOVE
    THEN IF RemoveGuard(o, msg) THEN RemoveBody(o, msg) ELSE o
    ELSE o

\* -------------------------------------------------------- states_callback
\* states_callback without the comparison with the recorded state
states_callback_WithoutChangeTest(o, msg) ==
    IF msg.node_name \in DOMAIN o.activators_state /\ msg.node_name # node_name
    THEN update_state([o EXCEPT !.activators_state[msg.node_name] = msg.state])
    ELSE o

states_callback(o, msg) ==
    IF msg.node_name \in DOMAIN o.activators_state /\ msg.node_name # node_name
    THEN IF o.activators_state[msg.node_name] # msg.state
         THEN update_state([o EXCEPT !.activators_state[msg.node_name] = msg.state])
         ELSE o
    ELSE o

\* --------------------------------------------------------- timer_callback
\* ns after "if (ns != '/'): ns = ns + '/'"
NsPrefix == IF get_namespace # "/" THEN get_namespace \o "/" ELSE get_namespace
Qualified(n) == NsPrefix \o n

\* the membership test of the loop
InNodes(n, nodes) == Qualified(n) \in nodes

\* the while loop; idx is the position the list iterator reads next (from 1),
\* label is the current_state read before the loop
RECURSIVE LivenessLoop(_, _, _, _)
LivenessLoop(o, idx, nodes, label) ==
    IF idx > Len(o.activators) THEN o                  \* next(it): StopIteration
    ELSE
      LET n == o.activators[idx]
          o1 == [o EXCEPT !.examined = Append(@, n)]
      IN  IF InNodes(n, nodes)
          THEN LET o2 == [o1 EXCEPT !.activators = ListRemove(@, n)]
               IN  IF n \notin DOMAIN o2.activators_state
                   THEN [o2 EXCEPT !.raised = "KeyError"]
                   ELSE LET o3 == IF StrEqInt(label, o2.activators_state[n])
                                  THEN update_state(o2) ELSE o2
                        IN  IF o3.raised # "none" THEN o3
                            ELSE LivenessLoop(
                                   [o3 EXCEPT !.activators_state = DictDel(@, n)],
                                   idx + 1, nodes, label)
          ELSE IF idx + 1 > Len(o1.activators) THEN o1 \* it.__next__(): StopIteration
               ELSE LivenessLoop(o1, idx + 2, nodes, label)

\* msg.state of the heartbeat; a State() message starts with state 0
HeartbeatState(label) ==
    CASE label = "unknown" -> PRIMARY_STATE_UNKNOWN
      [] label = "unconfigured" -> PRIMARY_STATE_UNCONFIGURED
      [] label = "inactive" -> PRIMARY_STATE_INACTIVE
      [] label = "active" -> PRIMARY_STATE_ACTIVE
      [] OTHER -> 0

timer_callback(o, nodes) ==
    LET label == o.current_state
        o1 == LivenessLoop(o, 1, nodes, label)
    IN  IF o1.raised # "none" THEN o1
        ELSE update_state(Publish(o1, StateMsg(node_name, HeartbeatState(label))))

\* ------------------------------------------------------------ public API
add_activation(o, n) ==
    IF n # node_name
    THEN [o EXCEPT !.activations = Append(@, n),
                   !.activators_pub = Append(@, ActivationMsg(ADD, n, node_name))]
    ELSE o

remove_activation(o, n) ==
    IF n # node_name
    THEN [o EXCEPT !.activations = Append(@, n),
                   !.activators_pub = Append(@, ActivationMsg(REMOVE, n, node_name))]
    ELSE o

\* for activator in self._activators: self.remove_activation(activator)
RECURSIVE ClearLoop(_, _)
ClearLoop(o, idx) ==
    IF idx > Len(o.activators) THEN o
    ELSE ClearLoop(remove_activation(o, o.activators[idx]), idx + 1)

clear_activation(o) == ClearLoop(o, 1)

\* ---------------------------------------------------------------- inputs
\* messages that can arrive on cascade_lifecycle_activations
ActivationMsgs ==
    {ActivationMsg(op, t, a) : op \in {ADD, REMOVE}, t \in Names, a \in Names}

\* messages that can arrive on cascade_lifecycle_states
StateMsgs == {StateMsg(n, s) : n \in Names, s \in StateIds}

\* results of get_node_names(): the fully qualified names of the running
\* nodes, this node among them
NodeSets == {ns \in SUBSET {Qualified(n) : n \in Names} : Qualified(node_name) \in ns}

TransitionKinds == {"configure", "cleanup", "activate", "deactivate", "shutdown"}

\* the record kept in last: the handler and its input
Call(op, msg, nodes, arg) == [op |-> op, msg |-> msg, nodes |-> nodes, arg |-> arg]
NoMsg == [operation_type |-> "", activation |-> "", activator |-> "",
          node_name |-> "", state |-> -1]
InMsg(m) == [x \in DOMAIN NoMsg |-> IF x \in DOMAIN m THEN m[x] ELSE NoMsg[x]]

\* -------------------------------------------------------------- observers
\* obs records how far the handled calls have followed each scenario; it is
\* written by every handler return and read by no handler.

IsAdd(call, a) ==
    /\ call.op = "activations_callback"
    /\ call.msg.operation_type = ADD
    /\ call.msg.activation = node_name
    /\ call.msg.activator = a

IsRemove(call, a) ==
    /\ call.op = "activations_callback"
    /\ call.msg.operation_type = REMOVE
    /\ call.msg.activation = node_name
    /\ call.msg.activator = a

IsAnnounce(call, n, s) ==
    /\ call.op = "states_callback"
    /\ call.msg.node_name = n
    /\ call.msg.state = s

IsTickWithLive(call, n) ==
    /\ call.op = "timer_callback"
    /\ Qualified(n) \in call.nodes

RoundtripOff == [phase |-> "off", x |-> "", activators |-> <<>>,
                 activators_state |-> EmptyDict]
StartupOff == [phase |-> "off", reqs |-> <<>>, anns |-> <<>>]

\* ADD of an untracked peer x, then REMOVE of x
ObserveRoundtrip(call) ==
    IF /\ call.op = "activations_callback"
       /\ call.msg.operation_type = ADD
       /\ call.msg.activation = node_name
       /\ call.msg.activator # node_name
       /\ call.msg.activator \notin ListElems(activators)
       /\ call.msg.activator \notin DOMAIN activators_state
    THEN [phase |-> "added", x |-> call.msg.activator,
          activators |-> activators, activators_state |-> activators_state]
    ELSE IF obs.roundtrip.phase = "added" /\ IsRemove(call, obs.roundtrip.x)
    THEN [obs.roundtrip EXCEPT !.phase = "removed"]
    ELSE RoundtripOff

\* Active, activated by B and C, both recorded Active: B announces Inactive,
\* then C's REMOVE
ObserveRemove(call) ==
    IF /\ IsAnnounce(call, "B", PRIMARY_STATE_INACTIVE)
       /\ current_state = "active"
       /\ activators \in {<<"B", "C">>, <<"C", "B">>}
       /\ DOMAIN activators_state = {"B", "C"}
       /\ activators_state["B"] = PRIMARY_STATE_ACTIVE
       /\ activators_state["C"] = PRIMARY_STATE_ACTIVE
    THEN "announced"
    ELSE IF obs.remove = "announced" /\ IsRemove(call, "C")
    THEN "removed"
    ELSE "off"

\* the states announced so far, consecutive repetitions and the Unconfigured
\* heartbeats left out
RECURSIVE AnnounceLog(_, _, _)
AnnounceLog(log, pubs, i) ==
    IF i > Len(pubs) THEN log
    ELSE LET s == pubs[i].state
         IN  IF s = PRIMARY_STATE_UNCONFIGURED \/ (Len(log) > 0 /\ log[Len(log)] = s)
             THEN AnnounceLog(log, pubs, i + 1)
             ELSE AnnounceLog(Append(log, s), pubs, i + 1)

\* Unconfigured with nothing tracked: ADD of B, then B announces Active, then
\* one more tick; B is in every discovery result
ObserveStartup(o, call) ==
    LET grown == [obs.startup EXCEPT !.reqs = @ \o o.requested,
                                     !.anns = AnnounceLog(@, o.states_pub, 1)]
    IN  IF /\ IsAdd(call, "B")
           /\ current_state = "unconfigured"
           /\ activators = <<>> /\ DOMAIN activators_state = {}
        THEN [phase |-> "added", reqs |-> <<>>, anns |-> <<>>]
        ELSE IF obs.startup.phase = "added" /\ IsTickWithLive(call, "B")
        THEN grown
        ELSE IF obs.startup.phase = "added" /\ IsAnnounce(call, "B", PRIMARY_STATE_ACTIVE)
        THEN [grown EXCEPT !.phase = "announced"]
        ELSE IF obs.startup.phase = "announced" /\ IsTickWithLive(call, "B")
        THEN [grown EXCEPT !.phase = "ticked"]
        ELSE StartupOff

\* the last public call made for each target
ObserveApi(call) ==
    IF call.op = "add_activation"
    THEN [obs.api EXCEPT ![call.arg] = "add"]
    ELSE IF call.op = "remove_activation"
    THEN [obs.api EXCEPT ![call.arg] = "remove"]
    ELSE IF call.op = "clear_activation"
    THEN [t \in Names |-> "none"]
    ELSE obs.api

\* only ADD messages of peers naming this node as target so far ("adds"),
\* then only ticks ("ticks")
ObserveAddsThenTicks(call) ==
    IF /\ obs.addsticks = "adds"
       /\ call.op = "activations_callback"
       /\ call.msg.operation_type = ADD
       /\ call.msg.activation = node_name
       /\ call.msg.activator # node_name
    THEN "adds"
    ELSE IF obs.addsticks \in {"adds", "ticks"} /\ call.op = "timer_callback"
    THEN "ticks"
    ELSE "off"

Observe(o, call) ==
    [roundtrip |-> ObserveRoundtrip(call), remove |-> ObserveRemove(call),
     startup |-> ObserveStartup(o, call), api |-> ObserveApi(call),
     addsticks |-> ObserveAddsThenTicks(call)]

\* ---------------------------------------------------------------- actions
\* the handler returned (or raised): its effects become the object's fields
Return(o, call) ==
    /\ activators' = o.activators
    /\ activators_state' = o.activators_state
    /\ activations' = o.activations
    /\ current_state' = o.current_state
    /\ requested' = o.requested
    /\ states_pub' = o.states_pub
    /\ activators_pub' = o.activators_pub
    /\ examined' = o.examined
    /\ update_state_calls' = o.update_state_calls
    /\ raised' = o.raised
    /\ last' = call
    /\ pre' = Snapshot
    /\ peer_label' = peer_label
    /\ obs' = Observe(o, call)

\* an exception that leaves a handler ends the process
Running == raised = "none"

ActivationsCallback ==
    /\ Running
    /\ \E msg \in ActivationMsgs :
          /\ (msg.operation_type = ADD /\ msg.activation = node_name)
                => Len(activators) < MaxActivators
          /\ Return(activations_callback(Obj, msg),
                    Call("activations_callback", InMsg(msg), {}, ""))

StatesCallback ==
    /\ Running
    /\ \E msg \in StateMsgs :
          Return(states_callback(Obj, msg),
                 Call("states_callback", InMsg(msg), {}, ""))

TimerCallback ==
    /\ Running
    /\ \E nodes \in NodeSets :
          Return(timer_callback(Obj, nodes),
                 Call("timer_callback", NoMsg, nodes, ""))

\* a transition requested from outside the coordinator (an operator, the
\* embedding node); the host runs the matching callback
ChangeStateRequest ==
    /\ Running
    /\ \E kind \in TransitionKinds :
          /\ current_state \in TransitionFrom(kind)
          /\ Return(ChangeState(Obj, kind), Call("change_state", NoMsg, {}, kind))

\* the host runs on_error after a transition of the embedding node failed;
\* the state machine then rests in unconfigured or in finalized, as the
\* value returned through super().on_error decides
ErrorProcessing ==
    /\ Running
    /\ current_state # "finalized"
    /\ \E goal \in {"unconfigured", "finalized"} :
          Return([on_error(Obj) EXCEPT !.current_state = goal],
                 Call("change_state", NoMsg, {}, "error"))

AddActivation ==
    /\ Running
    /\ Len(activations) < MaxActivations
    /\ \E n \in Names :
          Return(add_activation(Obj, n), Call("add_activation", NoMsg, {}, n))

RemoveActivation ==
    /\ Running
    /\ Len(activations) < MaxActivations
    /\ \E n \in Names :
          Return(remove_activation(Obj, n), Call("remove_activation", NoMsg, {}, n))

ClearActivation ==
    /\ Running
    /\ Len(activations) + Len(activators) <= MaxActivations
    /\ Return(clear_activation(Obj), Call("clear_activation", NoMsg, {}, ""))

\* nothing called yet
InitOutputs ==
    /\ activations = <<>>
    /\ requested = <<>>
    /\ states_pub = <<>>
    /\ activators_pub = <<>>
    /\ examined = <<>>
    /\ update_state_calls = 0
    /\ raised = "none"
    /\ last = Call("__init__", NoMsg, {}, "")
    /\ pre = Snapshot
    /\ obs = [roundtrip |-> RoundtripOff, remove |-> "off",
              startup |-> StartupOff, api |-> [t \in Names |-> "none"],
              addsticks |-> "adds"]

InitFields ==
    /\ activators = <<>>
    /\ activators_state = EmptyDict
    /\ current_state = "unconfigured"
    /\ InitOutputs

Init == InitFields /\ peer_label = "unconfigured"

\* the inbound handlers, the timer and the lifecycle transitions
Next ==
    \/ ActivationsCallback
    \/ StatesCallback
    \/ TimerCallback
    \/ ChangeStateRequest
    \/ ErrorProcessing

Spec == Init /\ [][Next]_vars

\* the public API, with inbound ADD messages filling _activators
ApiNext ==
    \/ AddActivation
    \/ RemoveActivation
    \/ ClearActivation
    \/ ActivationsCallback

ApiSpec == Init /\ [][ApiNext]_vars

\* ---- this node next to a running peer "B" that stays in one lifecycle state
\* the state id a node announces for the state it is in (on_cleanup,
\* on_configure/on_deactivate, on_activate, on_shutdown)
AnnouncedId(label) ==
    CASE label = "unconfigured" -> PRIMARY_STATE_UNCONFIGURED
      [] label = "inactive" -> PRIMARY_STATE_INACTIVE
      [] label = "active" -> PRIMARY_STATE_ACTIVE
      [] label = "finalized" -> PRIMARY_STATE_FINALIZED

HeartbeatInit == InitFields /\ peer_label \in Labels

\* an ADD naming this node as target arrives from a peer
AddFromPeer ==
    /\ Running
    /\ Len(activators) < MaxActivators
    /\ \E a \in Names \ {node_name} :
          LET msg == ActivationMsg(ADD, node_name, a)
          IN  Return(activations_callback(Obj, msg),
                     Call("activations_callback", InMsg(msg), {}, ""))

\* B's timer_callback publishes its heartbeat and this node handles it
PeerHeartbeat ==
    /\ Running
    /\ LET msg == StateMsg("B", HeartbeatState(peer_label))
       IN  Return(states_callback(Obj, msg),
                  Call("states_callback", InMsg(msg), {}, ""))

\* this node's timer fires while B is among the running nodes
TickPeerAlive ==
    /\ Running
    /\ \E nodes \in NodeSets :
          /\ Qualified("B") \in nodes
          /\ Return(timer_callback(Obj, nodes),
                    Call("timer_callback", NoMsg, nodes, ""))

HeartbeatNext ==
    \/ AddFromPeer
    \/ PeerHeartbeat
    \/ TickPeerAlive

\* both timers (0.5 s, line 40) keep firing
HeartbeatSpec ==
    /\ HeartbeatInit
    /\ [][HeartbeatNext]_vars
    /\ WF_vars(PeerHeartbeat)
    /\ WF_vars(TickPeerAlive)

\* ---- update_state applied to every state label and every dict
DecisionLabels == Labels \cup {"unknown"}
Dicts == UNION {[K -> StateIds] : K \in SUBSET Names}

\* a list holding each member of S once
ListOf(S) ==
    CHOOSE q \in [1..Cardinality(S) -> S] : {q[i] : i \in 1..Cardinality(S)} = S

DecisionInit ==
    /\ \E d \in Dicts, label \in DecisionLabels :
          /\ activators = ListOf(DOMAIN d)
          /\ activators_state = d
          /\ current_state = label
    /\ InitOutputs
    /\ peer_label = "unconfigured"

UpdateState ==
    /\ Running
    /\ Return(update_state(Obj), Call("update_state", NoMsg, {}, ""))

DecisionNext == UpdateState

DecisionSpec == DecisionInit /\ [][DecisionNext]_vars

TypeOK ==
    /\ activators \in Seq(Names)
    /\ DOMAIN activators_state \subseteq Names
    /\ \A a \in DOMAIN activators_state : activators_state[a] \in StateIds
    /\ current_state \in Labels
    /\ raised \in {"none", "KeyError", "ValueError", "RCLError"}

\* ================================================================= claims
\* a name is tracked when it is in the activator list or has a state record
TrackedIn(snap, x) ==
    x \in ListElems(snap.activators) \/ x \in DOMAIN snap.activators_state
Tracked(x) == x \in ListElems(activators) \/ x \in DOMAIN activators_state

RegistryUnchanged ==
    /\ activators = pre.activators
    /\ activators_state = pre.activators_state

Peers == Names \ {node_name}

\* C1: handling an ADD or REMOVE of (this node, activator x): an ADD of a
\* tracked x and a REMOVE of an untracked x complete and leave the registry
\* as it was, and x is tracked afterwards exactly when the message was an ADD.
C1_AddRemoveIdempotent ==
    \A x \in Peers :
        /\ IsAdd(last, x) =>
              /\ raised = "none"
              /\ Tracked(x)
              /\ TrackedIn(pre, x) => RegistryUnchanged
        /\ IsRemove(last, x) =>
              /\ raised = "none"
              /\ ~Tracked(x)
              /\ ~TrackedIn(pre, x) => RegistryUnchanged

\* C2: after ADD of an untracked x followed by REMOVE of x, the activator
\* list and the state records are what they were before the ADD.
C2_AddRemoveRoundTrip ==
    obs.roundtrip.phase = "removed" =>
        /\ raised = "none"
        /\ activators = obs.roundtrip.activators
        /\ activators_state = obs.roundtrip.activators_state

\* C3: an Active node handling the REMOVE of a tracked activator recorded
\* Active, when no other tracked activator is recorded Active, requests
\* deactivate and becomes Inactive.
C3_LastActiveRemovedDeactivates ==
    \A x \in Peers :
        ( /\ IsRemove(last, x)
          /\ pre.current_state = "active"
          /\ x \in ListElems(pre.activators)
          /\ x \in DOMAIN pre.activators_state
          /\ pre.activators_state[x] = PRIMARY_STATE_ACTIVE
          /\ ~any_other_active(DictDel(pre.activators_state, x)) )
        => /\ requested = <<"deactivate">>
           /\ current_state = "inactive"

\* C4: Active and activated by B and C, both recorded Active: after B's
\* announcement Inactive and then C's REMOVE, no remaining record is Active,
\* B's record is Inactive, deactivate was requested and the node is Inactive.
C4_AnnounceThenRemoveDeactivates ==
    obs.remove = "removed" =>
        /\ ~parent_active(activators_state)
        /\ parent_inactive(activators_state)
        /\ requested = <<"deactivate">>
        /\ current_state = "inactive"

\* C5: Unconfigured with nothing tracked and B alive throughout: after ADD of
\* B, B's announcement Active and the next tick (ticks may also come in
\* between), the node has requested configure and then activate, has
\* announced Inactive and then Active, and is Active.
C5_StartupConfiguresThenActivates ==
    obs.startup.phase = "ticked" =>
        /\ obs.startup.reqs = <<"configure", "activate">>
        /\ obs.startup.anns = <<PRIMARY_STATE_INACTIVE, PRIMARY_STATE_ACTIVE>>
        /\ current_state = "active"

\* C6: a tick that starts with the node Inactive and a tracked activator that
\* is recorded Active and is in the discovery result ends with the node Active.
C6_TickActivatesInactiveNode ==
    ( /\ last.op = "timer_callback"
      /\ pre.current_state = "inactive"
      /\ \E x \in Peers :
            /\ x \in ListElems(pre.activators)
            /\ x \in DOMAIN pre.activators_state
            /\ pre.activators_state[x] = PRIMARY_STATE_ACTIVE
            /\ Qualified(x) \in last.nodes )
    => current_state = "active"

\* number of occurrences of x in list l
Count(l, x) == Cardinality({i \in 1..Len(l) : l[i] = x})

\* C7: a tick removes the edge and the record of every tracked activator that
\* is absent from the discovery result, and leaves the edge and the record of
\* every tracked activator that is in it as they were.
C7_TickRemovesExactlyTheDead ==
    last.op = "timer_callback" =>
        \A x \in Peers :
            TrackedIn(pre, x) =>
                IF Qualified(x) \in last.nodes
                THEN /\ Count(activators, x) = Count(pre.activators, x)
                     /\ (x \in DOMAIN activators_state) = (x \in DOMAIN pre.activators_state)
                     /\ x \in DOMAIN activators_state
                           => activators_state[x] = pre.activators_state[x]
                ELSE ~Tracked(x)

\* C9: a handler of inbound messages or a tick that starts and ends with
\* nothing tracked requests no transition and leaves the lifecycle state as
\* it was.
C9_NoActivatorsNoTransition ==
    ( /\ last.op \in {"activations_callback", "states_callback", "timer_callback"}
      /\ \A x \in Names : ~TrackedIn(pre, x) /\ ~Tracked(x) )
    => /\ requested = <<>>
       /\ current_state = pre.current_state

\* a tick ran with nothing tracked and published the heartbeat
C9_Witness ==
    /\ last.op = "timer_callback"
    /\ \A x \in Names : ~TrackedIn(pre, x) /\ ~Tracked(x)
    /\ current_state = "unconfigured"
    /\ Len(states_pub) = 1
    /\ requested = <<>>

\* C8: with B alive and staying in one lifecycle state, and both timers
\* firing: once B is tracked, the record kept for B eventually equals B's
\* state and stays equal to it (as long as no exception has ended the process).
C8_RecordConvergesToPeerState ==
    [](("B" \in DOMAIN activators_state)
          => <>[]( \/ raised # "none"
                   \/ /\ "B" \in DOMAIN activators_state
                      /\ activators_state["B"] = AnnouncedId(peer_label) ))

\* C10: after add_activation/remove_activation calls the outgoing set is the
\* set of targets whose last call was add_activation, and clear_activation
\* publishes one REMOVE(target=t, activator=this node) for each t of the
\* outgoing set and nothing else.
C10_OutgoingSetAndClear ==
    /\ last.op \in {"add_activation", "remove_activation"}
          => ListElems(activations) = {t \in Peers : obs.api[t] = "add"}
    /\ last.op = "clear_activation"
          => /\ {activators_pub[i].activation : i \in 1..Len(activators_pub)}
                   = ListElems(pre.activations)
             /\ Len(activators_pub) = Cardinality(ListElems(pre.activations))
             /\ \A i \in 1..Len(activators_pub) :
                   /\ activators_pub[i].operation_type = REMOVE
                   /\ activators_pub[i].activator = node_name

\* C11: a REMOVE naming this node as target and an untracked activator
\* completes without an exception, leaves the registry and the lifecycle
\* state as they were and requests no transition.
C11_RemoveUntrackedIsNoOp ==
    \A x \in Peers :
        (IsRemove(last, x) /\ ~TrackedIn(pre, x))
        => /\ raised = "none"
           /\ RegistryUnchanged
           /\ current_state = pre.current_state
           /\ requested = <<>>

\* the state each completed transition is to announce
C12_Announced(kind) ==
    CASE kind = "configure" -> PRIMARY_STATE_INACTIVE
      [] kind = "deactivate" -> PRIMARY_STATE_INACTIVE
      [] kind = "cleanup" -> PRIMARY_STATE_UNCONFIGURED
      [] kind = "activate" -> PRIMARY_STATE_ACTIVE
      [] kind = "shutdown" -> PRIMARY_STATE_FINALIZED
      [] kind = "error" -> PRIMARY_STATE_FINALIZED

\* C12: every completed transition callback publishes exactly one state
\* announcement, with this node's name and the state of the transition, both
\* for transitions run from outside and for those states_callback requests.
C12_TransitionAnnouncesItsState ==
    /\ last.op = "change_state"
          => states_pub = <<StateMsg(node_name, C12_Announced(last.arg))>>
    /\ (last.op = "states_callback" /\ raised = "none")
          => /\ Len(states_pub) = Len(requested)
             /\ \A i \in 1..Len(requested) :
                   states_pub[i] = StateMsg(node_name, C12_Announced(requested[i]))

\* on_error ran and announced Finalized
C12_Witness ==
    /\ last.op = "change_state"
    /\ last.arg = "error"
    /\ states_pub = <<StateMsg(node_name, PRIMARY_STATE_FINALIZED)>>

\* C13: a tick that completes publishes first one heartbeat that carries this
\* node's name and its lifecycle state (Finalized included), and nothing a
\* tick publishes carries Unknown.
C13_HeartbeatCarriesOwnState ==
    (last.op = "timer_callback" /\ raised = "none")
    => /\ Len(states_pub) >= 1
       /\ states_pub[1] = StateMsg(node_name, AnnouncedId(pre.current_state))
       /\ \A i \in 1..Len(states_pub) : states_pub[i].state # PRIMARY_STATE_UNKNOWN

\* the request the decision rules give for a state and a snapshot
C14_Expected(state, snapshot) ==
    LET anyActive == \E a \in DOMAIN snapshot : snapshot[a] = PRIMARY_STATE_ACTIVE
        anyInactive == \E a \in DOMAIN snapshot : snapshot[a] = PRIMARY_STATE_INACTIVE
    IN  IF state \in {"unconfigured", "unknown"} /\ (anyActive \/ anyInactive)
        THEN <<"configure">>
        ELSE IF state = "inactive" /\ anyActive THEN <<"activate">>
        ELSE IF state = "active" /\ ~anyActive /\ anyInactive THEN <<"deactivate">>
        ELSE <<>>

\* C14: update_state requests configure exactly when the state is
\* Unconfigured or Unknown and some activator is recorded Active or Inactive,
\* activate exactly when Inactive and some activator is Active, deactivate
\* exactly when Active, none Active and some Inactive, and nothing otherwise.
C14_DecisionTable ==
    last.op = "update_state"
    => requested = C14_Expected(pre.current_state, pre.activators_state)

\* update_state ran in Active with an Inactive and no Active activator
C14_Witness ==
    /\ last.op = "update_state"
    /\ pre.current_state = "active"
    /\ requested = <<"deactivate">>
    /\ current_state = "inactive"

\* C15: every peer occurs at most once in the activator list, and the peers
\* of the list are exactly the peers that have a state record.
C15_ListMatchesRecords ==
    /\ \A x \in Peers : Count(activators, x) <= 1
    /\ ListElems(activators) \cap Peers = (DOMAIN activators_state) \cap Peers

\* C16: a tick that starts with a list of peers without repetitions reads
\* every name of that list from its iterator exactly once.
C16_TickExaminesEachOnce ==
    ( /\ last.op = "timer_callback"
      /\ ListElems(pre.activators) \subseteq Peers
      /\ \A x \in Peers : Count(pre.activators, x) <= 1 )
    => \A x \in ListElems(pre.activators) : Count(examined, x) = 1

\* C17: while only ADD messages of peers for this node and then only ticks
\* have been handled, no handler has raised.
C17_AddsThenTicksNeverRaise ==
    obs.addsticks \in {"adds", "ticks"} => raised = "none"

C19_NeverTracksItself == ~Tracked(node_name)

\* C20: when a handler has requested deactivate, no record left in the
\* registry is Active.
C20_NoDeactivateWhileParentActive ==
    ( /\ last.op \in {"activations_callback", "states_callback", "timer_callback"}
      /\ \E i \in 1..Len(requested) : requested[i] = "deactivate" )
    => ~\E a \in DOMAIN activators_state : activators_state[a] = PRIMARY_STATE_ACTIVE

\* a handler requested deactivate while activators remain
C20_Witness ==
    /\ last.op = "states_callback"
    /\ requested = <<"deactivate">>
    /\ Cardinality(DOMAIN activators_state) = 2

====
